---- MODULE Spec2Model ----
(***************************************************************************)
(* Dividend Hunter: the batched refresh orchestrator, the snapshot cache   *)
(* and historical trend store on disk, the read path of the API, and the   *)
(* scoring functions of the Security Metrics Builder.                      *)
(*                                                                         *)
(* Source: src/main.py (the API server) and src/seed_cache.py (the seed    *)
(* script, a separate operating-system process writing the same files).    *)
(*                                                                         *)
(* Numbers.  Python floats are modelled as fixed-point integers:           *)
(*   fractions (dividendYield, payoutRatio of the provider)  unit 1e-5     *)
(*   percentages stored with round(x, 2)                     unit 1e-2     *)
(*   the growth rate in percent before rounding              unit 1e-3     *)
(* Time is in minutes since the start of the model; a calendar day is      *)
(* now \div MinutesPerDay.                                                 *)
(***************************************************************************)
EXTENDS Integers, Sequences, FiniteSets, TLC

(***************************************************************************)
(* Bounds of the model.                                                    *)
(***************************************************************************)
\* Size of the ticker universe (SP500_TICKERS holds 435 distinct symbols).
NumTickers == 3
\* Tickers per batch: batch_size of the source (20), scaled with the universe.
BatchSize == 2
\* Refresh runs (API background tasks and seed processes) over a behaviour.
MaxRuns == 2
\* Number of clock advances over a behaviour.
MaxTicks == 1
\* Commits over a behaviour of SpecHist, and how many of them may cover the
\* first ticker only.
MaxAppends == 36
MaxPartial == 2
\* Calendar years a dividend history may cover (the last one is 2024).
NumYears == 8
\* Records in the list handed to apply_filters_and_sort.
NumListed == 3

(***************************************************************************)
(* Program constants.                                                      *)
(***************************************************************************)
\* historical[ticker][-30:]
HistoryCap == 30
\* timedelta(hours=24)
TTLHours == 24

MinutesPerDay == 24 * 60
TTL == TTLHours * 60

\* SP500_TICKERS: the ordered ticker universe; symbols are numbered.
SP500_TICKERS == [k \in 1..NumTickers |-> k]

Min(a, b) == IF a < b THEN a ELSE b
Max(a, b) == IF a > b THEN a ELSE b

(***************************************************************************)
(* round(x, 2) on a value given in a unit d times finer than 1e-2:         *)
(* round-half-even, as Python rounds.                                      *)
(***************************************************************************)
RoundHalfEven(n, d) ==
    LET q == n \div d
        r == n % d
    IN  IF 2 * r < d THEN q
        ELSE IF 2 * r > d THEN q + 1
        ELSE IF q % 2 = 0 THEN q ELSE q + 1

(***************************************************************************)
(* calculate_consecutive_years.  `years` is the set of calendar years with *)
(* at least one dividend (the index of the groupby).                       *)
(***************************************************************************)
RECURSIVE SortedDesc(_)
SortedDesc(S) ==
    IF S = {} THEN <<>>
    ELSE LET m == CHOOSE x \in S : \A y \in S : y <= x
         IN  <<m>> \o SortedDesc(S \ {m})

\* Variant: a gap is skipped (continue) instead of ending the walk (break).
RECURSIVE WalkYearsPastGap(_, _, _)
WalkYearsPastGap(years_list, i, consecutive) ==
    IF i > Len(years_list) THEN consecutive
    ELSE IF i = 1 THEN WalkYearsPastGap(years_list, i + 1, 1)
    ELSE IF years_list[i - 1] - years_list[i] = 1
         THEN WalkYearsPastGap(years_list, i + 1, consecutive + 1)
    ELSE WalkYearsPastGap(years_list, i + 1, consecutive)

RECURSIVE WalkYears(_, _, _)
WalkYears(years_list, i, consecutive) ==
    IF i > Len(years_list) THEN consecutive
    ELSE IF i = 1 THEN WalkYears(years_list, i + 1, 1)
    ELSE IF years_list[i - 1] - years_list[i] = 1
         THEN WalkYears(years_list, i + 1, consecutive + 1)
    ELSE consecutive

calculate_consecutive_years(years) ==
    IF years = {} THEN 0
    ELSE WalkYears(SortedDesc(years), 1, 0)

(***************************************************************************)
(* calculate_safety_score.  payout_ratio and dividend_yield arrive as the  *)
(* provider's fractions (unit 1e-5), growth_rate in percent (unit 1e-3);   *)
(* the literals of the source are scaled to the argument's unit.           *)
(***************************************************************************)
PayoutAdjustment(payout_ratio) ==
    IF payout_ratio = 0 THEN 0
    ELSE IF payout_ratio < 30 * 100000 THEN 25
    ELSE IF payout_ratio < 50 * 100000 THEN 40
    ELSE IF payout_ratio < 70 * 100000 THEN 30
    ELSE IF payout_ratio < 90 * 100000 THEN 15
    ELSE -10

YearsAdjustment(consecutive_years) ==
    IF consecutive_years >= 25 THEN 30
    ELSE IF consecutive_years >= 10 THEN 20
    ELSE IF consecutive_years >= 5 THEN 10
    ELSE IF consecutive_years >= 2 THEN 5
    ELSE 0

GrowthAdjustment(growth_rate) ==
    IF growth_rate > 10 * 1000 THEN 20
    ELSE IF growth_rate > 5 * 1000 THEN 15
    ELSE IF growth_rate > 0 THEN 10
    ELSE IF growth_rate > -5 * 1000 THEN 0
    ELSE -10

YieldAdjustment(dividend_yield) ==
    IF dividend_yield > 10000 THEN -15
    ELSE IF dividend_yield > 8000 THEN -5
    ELSE 0

\* score after the four branches, before the clamp of the return statement.
RawScore(payout_ratio, consecutive_years, growth_rate, dividend_yield) ==
    50 + PayoutAdjustment(payout_ratio)
       + YearsAdjustment(consecutive_years)
       + GrowthAdjustment(growth_rate)
       + YieldAdjustment(dividend_yield)

\* Variant: return max(0, score), without the upper clamp.
SafetyScoreNoCeiling(payout_ratio, consecutive_years, growth_rate, dividend_yield) ==
    Max(0, RawScore(payout_ratio, consecutive_years, growth_rate, dividend_yield))

calculate_safety_score(payout_ratio, consecutive_years, growth_rate, dividend_yield) ==
    LET score == RawScore(payout_ratio, consecutive_years, growth_rate, dividend_yield)
    IN  Max(0, Min(100, score))

(***************************************************************************)
(* calculate_dividend_metrics.  `resp` is what the Market Data Provider    *)
(* answers for the ticker:                                                 *)
(*   raises         a provider call throws                                 *)
(*   dividendYield  info["dividendYield"] or 0          (fraction, 1e-5)   *)
(*   payoutRatio    info["payoutRatio"] or 0            (fraction, 1e-5)   *)
(*   price          info["currentPrice"]                                   *)
(*   years          the years of stock.dividends ({} when it is empty)     *)
(*   growth         calculate_dividend_growth(dividends) (percent, 1e-3)   *)
(* The result is an option: <<>> is None, <<record>> a record.             *)
(***************************************************************************)
None == <<>>

calculate_dividend_metrics(ticker, resp) ==
    IF resp.raises THEN None
    ELSE IF resp.dividendYield = 0 THEN None
    ELSE IF resp.years = {} THEN None
    ELSE LET consecutive_years == calculate_consecutive_years(resp.years)
             safety_score == calculate_safety_score(resp.payoutRatio, consecutive_years,
                                                    resp.growth, resp.dividendYield)
         IN  << [ ticker           |-> ticker,
                  price            |-> resp.price,
                  dividendYield    |-> RoundHalfEven(resp.dividendYield, 10),
                  payoutRatio      |-> IF resp.payoutRatio # 0
                                       THEN RoundHalfEven(resp.payoutRatio, 10) ELSE 0,
                  consecutiveYears |-> consecutive_years,
                  growthRate       |-> RoundHalfEven(resp.growth, 10),
                  safetyScore      |-> safety_score ] >>


(***************************************************************************)
(* What the Market Data Provider may answer for one ticker in a refresh    *)
(* run: a dividend payer, a non-payer (no yield), a payer without any      *)
(* dividend history, and a failing call.                                   *)
(***************************************************************************)
GoodResp ==
    [raises |-> FALSE, dividendYield |-> 3500, payoutRatio |-> 45000, price |-> 100,
     years |-> {2022, 2023, 2024}, growth |-> 6000]
NoYieldResp == [GoodResp EXCEPT !.dividendYield = 0]
EmptyHistoryResp == [GoodResp EXCEPT !.years = {}]
ErrorResp == [GoodResp EXCEPT !.raises = TRUE]
Responses == {GoodResp, NoYieldResp, EmptyHistoryResp, ErrorResp}

(***************************************************************************)
(* State.                                                                  *)
(*   now, ticks     the wall clock (minutes) and the number of advances    *)
(*   snapshotFile   data/latest_snapshot.json                              *)
(*   historicalFile data/historical_dividends.json                         *)
(*   runs           the refresh runs: background tasks of the API server   *)
(*                  (kind "api") and seed processes (kind "seed")          *)
(*   nextRun        the next unused run slot                               *)
(*   reply          the answer of the API when the last step was a request *)
(*   appended       per ticker, the points committed refreshes appended    *)
(*                  to the historical store, in append order (history)     *)
(*   probe          one call of the Security Metrics Builder on its own:    *)
(*                  the provider's answer, then the record built from it    *)
(***************************************************************************)
VARIABLES now, ticks, snapshotFile, historicalFile, runs, nextRun, reply, appended, probe

vars == <<now, ticks, snapshotFile, historicalFile, runs, nextRun, reply, appended, probe>>

Tickers == 1..NumTickers
RunIds == 1..MaxRuns

(***************************************************************************)
(* Files.  A file is absent, complete (a whole JSON document), or partial: *)
(* open(path, "w") has truncated it and json.dump has not finished, so it  *)
(* holds a proper prefix of a document (possibly nothing).                 *)
(***************************************************************************)
NoHistory == [t \in Tickers |-> <<>>]

AbsentSnapshot == [state |-> "absent", fetchedAt |-> 0, stocks |-> <<>>]
PartialSnapshot == [state |-> "partial", fetchedAt |-> 0, stocks |-> <<>>]
CompleteSnapshot(fetchedAt, stocks) ==
    [state |-> "complete", fetchedAt |-> fetchedAt, stocks |-> stocks]

\* A ticker without a key in the JSON object has the empty series here: the
\* code creates a key only together with its first point.
AbsentHistorical == [state |-> "absent", data |-> NoHistory]
PartialHistorical == [state |-> "partial", data |-> NoHistory]
CompleteHistorical(data) == [state |-> "complete", data |-> data]

Today(t) == t \div MinutesPerDay

\* load_historical_data of a file that is absent or complete.
load_historical_data(file) == IF file.state = "complete" THEN file.data ELSE NoHistory

HistoricalPoint(stock, today) ==
    [date |-> today, yield |-> stock.dividendYield, price |-> stock.price,
     growthRate |-> stock.growthRate, safetyScore |-> stock.safetyScore]

\* Variant: historical[ticker][:30], the oldest points are kept.
KeepFirst(series) ==
    IF Len(series) <= HistoryCap THEN series ELSE SubSeq(series, 1, HistoryCap)

\* historical[ticker][-30:]
KeepLast(series) ==
    IF Len(series) <= HistoryCap THEN series
    ELSE SubSeq(series, Len(series) - HistoryCap + 1, Len(series))

\* Variant: a ticker gets one point per calendar day; a second commit of the
\* day replaces the point of the first.
RECURSIVE AppendOncePerDay(_, _, _)
AppendOncePerDay(historical, stocks, today) ==
    IF stocks = <<>> THEN historical
    ELSE LET stock == Head(stocks)
             ticker == stock.ticker
             series == historical[ticker]
             kept == IF series # <<>> /\ series[Len(series)].date = today
                     THEN SubSeq(series, 1, Len(series) - 1) ELSE series
         IN  AppendOncePerDay(
                 [historical EXCEPT ![ticker] =
                     KeepLast(Append(kept, HistoricalPoint(stock, today)))],
                 Tail(stocks), today)

\* The loop of save_snapshot over the stocks of the result set.
RECURSIVE AppendHistorical(_, _, _)
AppendHistorical(historical, stocks, today) ==
    IF stocks = <<>> THEN historical
    ELSE LET stock == Head(stocks)
             ticker == stock.ticker
         IN  AppendHistorical(
                 [historical EXCEPT ![ticker] =
                     KeepLast(Append(historical[ticker], HistoricalPoint(stock, today)))],
                 Tail(stocks), today)

\* History: the points one commit appends, added to the per-ticker log.
RECURSIVE LogAppends(_, _, _)
LogAppends(log, stocks, today) ==
    IF stocks = <<>> THEN log
    ELSE LogAppends([log EXCEPT ![Head(stocks).ticker] =
                        Append(log[Head(stocks).ticker], HistoricalPoint(Head(stocks), today))],
                    Tail(stocks), today)

(***************************************************************************)
(* apply_filters_and_sort.  A record of the list is a dictionary; the      *)
(* value of growthRate may be null, written None here and <<v>> otherwise  *)
(* (unit 1e-2), and a key may be missing altogether.  An optional filter   *)
(* argument is None or <<v>>.  Tickers and sectors are numbered; the       *)
(* order of the numbers stands for the order of the strings.               *)
(***************************************************************************)
\* [s for s in filtered if ...], one comprehension per filter that is given
Filtered(stocks, category, min_yield, max_yield, min_safety, sector) ==
    LET Keep(x) ==
            /\ category # None => x.category = category[1]
            /\ min_yield # None => x.dividendYield >= min_yield[1]
            /\ max_yield # None => x.dividendYield <= max_yield[1]
            /\ min_safety # None => x.safetyScore >= min_safety[1]
            /\ sector # None => x.sector = sector[1]
    IN  SelectSeq(stocks, Keep)

\* key=lambda x: x.get(sort_by, 0) or 0
SortKey(x, sort_by) ==
    IF sort_by \notin DOMAIN x THEN 0
    ELSE IF sort_by = "growthRate"
         THEN (IF x.growthRate = None \/ x.growthRate[1] = 0 THEN 0 ELSE x.growthRate[1])
    ELSE x[sort_by]

\* reverse = sort_by not in ["ticker", "name"]
Reverse(sort_by) == sort_by \notin {"ticker", "name"}

\* list.sort is stable, with reverse=True too: records of equal key keep
\* their order.  x is inserted behind every record that does not come after it.
RECURSIVE InsertSorted(_, _, _)
InsertSorted(sorted, x, sort_by) ==
    IF sorted = <<>> THEN <<x>>
    ELSE LET h == Head(sorted)
             xFirst == IF Reverse(sort_by)
                       THEN SortKey(x, sort_by) > SortKey(h, sort_by)
                       ELSE SortKey(x, sort_by) < SortKey(h, sort_by)
         IN  IF xFirst THEN <<x>> \o sorted
             ELSE <<h>> \o InsertSorted(Tail(sorted), x, sort_by)

RECURSIVE SortStocks(_, _)
SortStocks(seq, sort_by) ==
    IF seq = <<>> THEN <<>>
    ELSE InsertSorted(SortStocks(SubSeq(seq, 1, Len(seq) - 1), sort_by), seq[Len(seq)], sort_by)

apply_filters_and_sort(stocks, category, min_yield, max_yield, min_safety, sector, sort_by, limit) ==
    LET filtered == SortStocks(Filtered(stocks, category, min_yield, max_yield, min_safety, sector),
                               sort_by)
    IN  [stocks |-> SubSeq(filtered, 1, Min(limit, Len(filtered))), total |-> Len(filtered)]

(***************************************************************************)
(* load_cached_snapshot: None for an absent file, the snapshot when it is  *)
(* younger than 24 hours, None otherwise.  json.load of a partial file     *)
(* raises JSONDecodeError.                                                 *)
(***************************************************************************)
\* Variant: a snapshot of exactly 24 hours still counts as fresh.
IsFreshInclusive(t, fetched_at) == t - fetched_at <= TTL

IsFresh(t, fetched_at) == t - fetched_at < TTL

load_cached_snapshot(file, t) ==
    IF file.state = "absent" THEN [kind |-> "none", fetchedAt |-> 0, stocks |-> <<>>]
    ELSE IF file.state = "partial" THEN [kind |-> "raise", fetchedAt |-> 0, stocks |-> <<>>]
    ELSE IF IsFresh(t, file.fetchedAt)
         THEN [kind |-> "snapshot", fetchedAt |-> file.fetchedAt, stocks |-> file.stocks]
    ELSE [kind |-> "none", fetchedAt |-> 0, stocks |-> <<>>]

\* History: the file an endpoint found on disk, and the age of its snapshot.
Age(file, t) == IF file.state = "complete" THEN t - file.fetchedAt ELSE 0

(***************************************************************************)
(* get_dividend_stocks up to its return: the status of the answer and      *)
(* whether refresh_data_background is added to the background tasks.       *)
(* "error" is an exception leaving the handler (HTTP 500).                 *)
(***************************************************************************)
get_dividend_stocks(file, t, force_refresh) ==
    LET cached == load_cached_snapshot(file, t)
    IN  IF cached.kind = "raise" THEN [status |-> "error", starts |-> FALSE]
        ELSE IF cached.kind = "snapshot" /\ ~force_refresh
             THEN [status |-> "ok", starts |-> FALSE]
        ELSE IF cached.kind # "snapshot"
             THEN [status |-> "needs_initialization", starts |-> FALSE]
        ELSE [status |-> "ok", starts |-> TRUE]

(***************************************************************************)
(* get_top_stocks.  Without stocks it calls                                *)
(* get_dividend_stocks(force_refresh=True, category=..., limit=...), which *)
(* lacks the required argument background_tasks: TypeError, HTTP 500.      *)
(***************************************************************************)
get_top_stocks(file, t) ==
    LET cached == load_cached_snapshot(file, t)
        stocks == IF cached.kind = "snapshot" THEN cached.stocks ELSE <<>>
    IN  IF cached.kind = "raise" THEN [status |-> "error", starts |-> FALSE]
        ELSE IF stocks = <<>> THEN [status |-> "error", starts |-> FALSE]
        ELSE [status |-> "ok", starts |-> FALSE]

(***************************************************************************)
(* Refresh runs.                                                           *)
(*   pc: none -> queued -> gather <-> sleep -> commit -> dump -> hload ->  *)
(*       hopen -> hdump -> done;  commit -> aborted;  hload -> failed      *)
(*   i            the loop variable (start index of the current batch)     *)
(*   futures      the executor calls of the current batch                  *)
(*   all_stocks   the aggregated result                                    *)
(*   fetchedAt    snapshot["fetchedAt"] of save_snapshot                   *)
(*   historical   the local dictionary of save_snapshot                    *)
(*   pauses, submitted, returned  (history) the number of asyncio.sleep    *)
(*                calls, the tickers submitted to the Builder in order,    *)
(*                and what each call returned                              *)
(***************************************************************************)
NoRun ==
    [kind |-> "none", pc |-> "none", i |-> 0, futures |-> <<>>, all_stocks |-> <<>>,
     fetchedAt |-> 0, historical |-> NoHistory, pauses |-> 0,
     submitted |-> <<>>, returned |-> <<>>]

\* The coroutine has returned, after a commit (pc "done") or without one (pc
\* "aborted"), or an exception has ended it (pc "failed"): its locals are gone.
Ended(run, pc) == [NoRun EXCEPT !.kind = run.kind, !.pc = pc]

\* SP500_TICKERS[i:i+batch_size]
Batch(i) == SubSeq(SP500_TICKERS, i + 1, Min(i + BatchSize, Len(SP500_TICKERS)))

\* total_batches
TotalBatches == (Len(SP500_TICKERS) + BatchSize - 1) \div BatchSize

\* loop.run_in_executor(executor, calculate_dividend_metrics, ticker) for the batch
SubmitBatch(run, i) ==
    [run EXCEPT !.pc = "gather", !.i = i,
                !.futures = [k \in 1..Len(Batch(i)) |->
                                [ticker |-> Batch(i)[k], done |-> FALSE, result |-> None]],
                !.submitted = @ \o Batch(i)]

RECURSIVE Flatten(_)
Flatten(options) == IF options = <<>> THEN <<>> ELSE Head(options) \o Flatten(Tail(options))

\* Variant: the first failed call of a batch drops the calls after it.
RECURSIVE ValidUntilFailure(_)
ValidUntilFailure(results) ==
    IF results = <<>> \/ Head(results) = None THEN <<>>
    ELSE Head(results) \o ValidUntilFailure(Tail(results))

\* Variant: the gather returns with the first call that completes.
FirstReturned(futures) == \E k \in 1..Len(futures) : futures[k].done

\* results = await asyncio.gather(*futures): every call has returned.
AllReturned(futures) == \A k \in 1..Len(futures) : futures[k].done

\* [r for r in results if r is not None]
ValidResults(results) == Flatten(results)

\* if i + batch_size < len(SP500_TICKERS): await asyncio.sleep(2)
\* (seed_cache.py sleeps after every batch)
SleepsAfterBatch(kind, i) ==
    IF kind = "seed" THEN TRUE ELSE i + BatchSize < Len(SP500_TICKERS)

\* Variant: save_snapshot is called whatever the result.
ShouldCommitAlways(all_stocks) == TRUE

\* if all_stocks: save_snapshot(all_stocks)
ShouldCommit(all_stocks) == all_stocks # <<>>

SyncPcs == {"commit", "dump", "hload", "hopen", "hdump"}

(***************************************************************************)
(* The API server runs its handlers and background tasks on one event      *)
(* loop: between two awaits a coroutine is not interleaved with another    *)
(* one.  A background task that has left its last await (gather or sleep)  *)
(* holds the loop until save_snapshot has returned.  The seed script is a  *)
(* process of its own and the executor's workers are threads: neither      *)
(* waits for the loop.                                                     *)
(***************************************************************************)
LoopHeldByOther(r) ==
    \E q \in RunIds : q # r /\ runs[q].kind = "api" /\ runs[q].pc \in SyncPcs

LoopFree == \A q \in RunIds : ~(runs[q].kind = "api" /\ runs[q].pc \in SyncPcs)

CanStep(r) == runs[r].kind = "seed" \/ ~LoopHeldByOther(r)

NoReply ==
    [endpoint |-> "none", force |-> FALSE, file |-> "none", age |-> 0, status |-> "none",
     started |-> FALSE]

Answer(endpoint, force_refresh, result) ==
    [endpoint |-> endpoint, force |-> force_refresh, file |-> snapshotFile.state,
     age |-> Age(snapshotFile, now), status |-> result.status, started |-> result.starts]

NoProbe ==
    [stage |-> "none", resp |-> GoodResp, result |-> None, payoutAdj |-> 0,
     safety |-> 0, raw |-> 0, consecutive |-> 0,
     stocks |-> <<>>, sort_by |-> "rankScore", limit |-> 100, total |-> 0, listed |-> <<>>]

AllGood == Flatten([k \in 1..NumTickers |-> calculate_dividend_metrics(SP500_TICKERS[k], GoodResp)])

\* The data directory outlives the processes: it is empty (first start), or
\* holds what an earlier seed run committed at time 0.
Init ==
    /\ now = 0
    /\ ticks = 0
    /\ runs = [r \in RunIds |-> NoRun]
    /\ nextRun = 1
    /\ reply = NoReply
    /\ probe = NoProbe
    /\ \/ /\ snapshotFile = AbsentSnapshot
          /\ historicalFile = AbsentHistorical
          /\ appended = NoHistory
       \/ /\ snapshotFile = CompleteSnapshot(0, AllGood)
          /\ historicalFile = CompleteHistorical(AppendHistorical(NoHistory, AllGood, 0))
          /\ appended = LogAppends(NoHistory, AllGood, 0)


(***************************************************************************)
(* The clock.                                                              *)
(***************************************************************************)
\* The clock advances by 23h59m, 24h or 24h01m.
TickSteps == {TTL - 1, TTL, TTL + 1}

Tick ==
    /\ ticks < MaxTicks
    /\ \E d \in TickSteps : now' = now + d
    /\ ticks' = ticks + 1
    /\ UNCHANGED <<snapshotFile, historicalFile, runs, nextRun, appended, probe>>
    /\ reply' = NoReply

(***************************************************************************)
(* GET /api/stocks.                                                        *)
(***************************************************************************)
GetDividendStocks ==
    /\ LoopFree
    /\ \E force_refresh \in BOOLEAN :
        LET result == get_dividend_stocks(snapshotFile, now, force_refresh)
        IN  /\ reply' = Answer("stocks", force_refresh, result)
            /\ IF result.starts
               THEN \* background_tasks.add_task(refresh_data_background)
                    /\ nextRun <= MaxRuns
                    /\ runs' = [runs EXCEPT ![nextRun] =
                                    [NoRun EXCEPT !.kind = "api", !.pc = "queued"]]
                    /\ nextRun' = nextRun + 1
               ELSE UNCHANGED <<runs, nextRun>>
    /\ UNCHANGED <<now, ticks, snapshotFile, historicalFile, appended, probe>>

(***************************************************************************)
(* GET /api/top.                                                           *)
(***************************************************************************)
GetTopStocks ==
    /\ LoopFree
    /\ reply' = Answer("top", FALSE, get_top_stocks(snapshotFile, now))
    /\ UNCHANGED <<now, ticks, snapshotFile, historicalFile, runs, nextRun, appended, probe>>

(***************************************************************************)
(* python seed_cache.py: a seed process starts.                            *)
(***************************************************************************)
SeedStart ==
    /\ nextRun <= MaxRuns
    /\ runs' = [runs EXCEPT ![nextRun] = [NoRun EXCEPT !.kind = "seed", !.pc = "queued"]]
    /\ nextRun' = nextRun + 1
    /\ UNCHANGED <<now, ticks, snapshotFile, historicalFile, appended, probe>>
    /\ reply' = NoReply

(***************************************************************************)
(* refresh_data_background / seed_data, from await to await.               *)
(***************************************************************************)
\* The run begins: the first batch is submitted, the run awaits the gather.
BeginRun(r) ==
    /\ runs[r].pc = "queued"
    /\ CanStep(r)
    /\ runs' = [runs EXCEPT ![r] = SubmitBatch(@, 0)]
    /\ UNCHANGED <<now, ticks, snapshotFile, historicalFile, nextRun, appended, probe>>
    /\ reply' = NoReply

\* A worker thread of the executor returns from calculate_dividend_metrics.
WorkerReturn(r) ==
    /\ runs[r].pc = "gather"
    /\ \E k \in 1..Len(runs[r].futures) :
        /\ ~runs[r].futures[k].done
        /\ \E resp \in Responses :
            runs' = [runs EXCEPT ![r].futures[k] =
                        [@ EXCEPT !.done = TRUE,
                                  !.result = calculate_dividend_metrics(runs[r].futures[k].ticker, resp)]]
    /\ UNCHANGED <<now, ticks, snapshotFile, historicalFile, nextRun, appended, probe>>
    /\ reply' = NoReply

\* asyncio.gather returns: the batch is aggregated, then the run sleeps or
\* goes on to the commit.
GatherDone(r) ==
    /\ runs[r].pc = "gather"
    /\ CanStep(r)
    /\ AllReturned(runs[r].futures)
    /\ LET results == [k \in 1..Len(runs[r].futures) |-> runs[r].futures[k].result]
           sleeps == SleepsAfterBatch(runs[r].kind, runs[r].i)
       IN  runs' = [runs EXCEPT ![r] =
                       [@ EXCEPT !.all_stocks = @ \o ValidResults(results),
                                 !.returned = @ \o results,
                                 !.futures = <<>>,
                                 !.pauses = IF sleeps THEN @ + 1 ELSE @,
                                 !.pc = IF sleeps THEN "sleep" ELSE "commit"]]
    /\ UNCHANGED <<now, ticks, snapshotFile, historicalFile, nextRun, appended, probe>>
    /\ reply' = NoReply

\* asyncio.sleep(2) returns: the next iteration submits its batch; after the
\* last batch the loop ends.
SleepDone(r) ==
    /\ runs[r].pc = "sleep"
    /\ CanStep(r)
    /\ runs' = [runs EXCEPT ![r] =
                   IF @.i + BatchSize < Len(SP500_TICKERS)
                   THEN SubmitBatch(@, @.i + BatchSize)
                   ELSE [@ EXCEPT !.pc = "commit"]]
    /\ UNCHANGED <<now, ticks, snapshotFile, historicalFile, nextRun, appended, probe>>
    /\ reply' = NoReply

(***************************************************************************)
(* The commit: `if all_stocks: save_snapshot(all_stocks)`, one file        *)
(* operation per step.                                                     *)
(***************************************************************************)
\* The guard; then snapshot = {...now...} and open(SNAPSHOT_FILE, "w").
Commit(r) ==
    /\ runs[r].pc = "commit"
    /\ CanStep(r)
    /\ IF ShouldCommit(runs[r].all_stocks)
       THEN /\ runs' = [runs EXCEPT ![r].pc = "dump", ![r].fetchedAt = now]
            /\ snapshotFile' = PartialSnapshot
       ELSE \* "Refresh complete but found 0 stocks. Keeping old cache if exists."
            /\ runs' = [runs EXCEPT ![r] = Ended(@, "aborted")]
            /\ UNCHANGED snapshotFile
    /\ UNCHANGED <<now, ticks, historicalFile, nextRun, appended, probe>>
    /\ reply' = NoReply

\* json.dump(snapshot, f) and the close of the file.
DumpSnapshot(r) ==
    /\ runs[r].pc = "dump"
    /\ snapshotFile' = CompleteSnapshot(runs[r].fetchedAt, runs[r].all_stocks)
    /\ runs' = [runs EXCEPT ![r].pc = "hload"]
    /\ UNCHANGED <<now, ticks, historicalFile, nextRun, appended, probe>>
    /\ reply' = NoReply

\* load_historical_data() and the append loop on the local dictionary.  A
\* partial file makes json.load raise: the exception ends the run.
LoadHistorical(r) ==
    /\ runs[r].pc = "hload"
    /\ IF historicalFile.state = "partial"
       THEN runs' = [runs EXCEPT ![r] = Ended(@, "failed")]
       ELSE runs' = [runs EXCEPT ![r].pc = "hopen",
                                 ![r].historical =
                                     AppendHistorical(load_historical_data(historicalFile),
                                                      runs[r].all_stocks, Today(now))]
    /\ UNCHANGED <<now, ticks, snapshotFile, historicalFile, nextRun, appended, probe>>
    /\ reply' = NoReply

\* save_historical_data: open(HISTORICAL_FILE, "w").
OpenHistorical(r) ==
    /\ runs[r].pc = "hopen"
    /\ historicalFile' = PartialHistorical
    /\ runs' = [runs EXCEPT ![r].pc = "hdump"]
    /\ UNCHANGED <<now, ticks, snapshotFile, nextRun, appended, probe>>
    /\ reply' = NoReply

\* save_historical_data: json.dump(data, f) and the close of the file.
DumpHistorical(r) ==
    /\ runs[r].pc = "hdump"
    /\ historicalFile' = CompleteHistorical(runs[r].historical)
    /\ runs' = [runs EXCEPT ![r] = Ended(@, "done")]
    /\ appended' = [t \in Tickers |->
                       IF \E k \in 1..Len(runs[r].all_stocks) : runs[r].all_stocks[k].ticker = t
                       THEN Append(appended[t], runs[r].historical[t][Len(runs[r].historical[t])])
                       ELSE appended[t]]
    /\ UNCHANGED <<now, ticks, snapshotFile, nextRun, probe>>
    /\ reply' = NoReply

Next ==
    \/ Tick
    \/ GetDividendStocks
    \/ GetTopStocks
    \/ SeedStart
    \/ \E r \in RunIds : BeginRun(r)
    \/ \E r \in RunIds : WorkerReturn(r)
    \/ \E r \in RunIds : GatherDone(r)
    \/ \E r \in RunIds : SleepDone(r)
    \/ \E r \in RunIds : Commit(r)
    \/ \E r \in RunIds : DumpSnapshot(r)
    \/ \E r \in RunIds : LoadHistorical(r)
    \/ \E r \in RunIds : OpenHistorical(r)
    \/ \E r \in RunIds : DumpHistorical(r)

Spec == Init /\ [][Next]_vars

(***************************************************************************)
(* One refresh run on its own, from what the data directory holds: the     *)
(* operator runs the seed script once, or the client forces one refresh.   *)
(* The read endpoints and the clock are as in Spec.                        *)
(***************************************************************************)
MaySoloStart == nextRun = 1

SoloGetDividendStocks == GetDividendStocks /\ (MaySoloStart \/ UNCHANGED runs)

SoloSeedStart == MaySoloStart /\ SeedStart

NextSolo ==
    \/ Tick
    \/ SoloGetDividendStocks
    \/ GetTopStocks
    \/ SoloSeedStart
    \/ \E r \in RunIds : BeginRun(r)
    \/ \E r \in RunIds : WorkerReturn(r)
    \/ \E r \in RunIds : GatherDone(r)
    \/ \E r \in RunIds : SleepDone(r)
    \/ \E r \in RunIds : Commit(r)
    \/ \E r \in RunIds : DumpSnapshot(r)
    \/ \E r \in RunIds : LoadHistorical(r)
    \/ \E r \in RunIds : OpenHistorical(r)
    \/ \E r \in RunIds : DumpHistorical(r)

SpecSolo == Init /\ [][NextSolo]_vars


(***************************************************************************)
(* The historical store under a sequence of commits: save_snapshot is      *)
(* called with one result set after the other.  The provider quotes a      *)
(* different price at every refresh (the number of the refresh), so that   *)
(* the points of a series are pairwise distinct.  A result set covers the  *)
(* whole universe or, at most MaxPartial times, the first ticker only.     *)
(* The clock stands still: every commit is of the same day.                *)
(***************************************************************************)
ResultSet(price, tickers) ==
    Flatten([k \in 1..Len(tickers) |->
                calculate_dividend_metrics(tickers[k], [GoodResp EXCEPT !.price = price])])

\* save_snapshot(stocks), from its first line to its last.
SaveSnapshot(stocks) ==
    /\ snapshotFile' = CompleteSnapshot(now, stocks)
    /\ historicalFile' =
           CompleteHistorical(AppendHistorical(load_historical_data(historicalFile),
                                               stocks, Today(now)))
    /\ appended' = LogAppends(appended, stocks, Today(now))

CommitAll ==
    /\ Len(appended[1]) < MaxAppends
    /\ SaveSnapshot(ResultSet(Len(appended[1]) + 1, SP500_TICKERS))
    /\ UNCHANGED <<now, ticks, runs, nextRun, reply, probe>>

CommitFirst ==
    /\ Len(appended[1]) < MaxAppends
    /\ Len(appended[1]) - Len(appended[NumTickers]) < MaxPartial
    /\ SaveSnapshot(ResultSet(Len(appended[1]) + 1, SubSeq(SP500_TICKERS, 1, 1)))
    /\ UNCHANGED <<now, ticks, runs, nextRun, reply, probe>>

InitHist ==
    /\ now = 0
    /\ ticks = 0
    /\ runs = [r \in RunIds |-> NoRun]
    /\ nextRun = 1
    /\ reply = NoReply
    /\ probe = NoProbe
    /\ snapshotFile = AbsentSnapshot
    /\ historicalFile = AbsentHistorical
    /\ appended = NoHistory

NextHist == CommitAll \/ CommitFirst

SpecHist == InitHist /\ [][NextHist]_vars

(***************************************************************************)
(* The Security Metrics Builder on its own: one call of                    *)
(* calculate_dividend_metrics on an answer of the provider.                *)
(***************************************************************************)
\* payoutRatio of the provider, a fraction in units of 1e-5: 0.45 is 45000.
PayoutInputs ==
    {0, 1, 29994, 29999, 30000, 45000, 49999, 50000, 69999, 70000, 89999, 90000,
     150000, 2999999, 3000000, 4999999, 5000000, 9000000}
\* dividendYield of the provider, a fraction in units of 1e-5.
YieldInputs == {0, 3500, 8000, 8001, 10000, 10001}
\* calculate_dividend_growth, percent in units of 1e-3.
GrowthInputs == {-20000, -5000, -4999, 0, 1, 5000, 5001, 10000, 10001}
\* The calendar years with a dividend.
YearInputs ==
    {{}, {2024}, {2023, 2024}, {2020, 2022, 2023, 2024}, 2020..2024, 2015..2024, 2000..2024}

ProbeInputs ==
    [raises : BOOLEAN, dividendYield : YieldInputs, payoutRatio : PayoutInputs,
     price : {100}, years : YearInputs, growth : GrowthInputs]

InitScore ==
    /\ now = 0
    /\ ticks = 0
    /\ runs = [r \in RunIds |-> NoRun]
    /\ nextRun = 1
    /\ reply = NoReply
    /\ snapshotFile = AbsentSnapshot
    /\ historicalFile = AbsentHistorical
    /\ appended = NoHistory
    /\ \E resp \in ProbeInputs : probe = [NoProbe EXCEPT !.stage = "input", !.resp = resp]

\* calculate_dividend_metrics(ticker) on the answer; payoutAdj (history) is
\* what the payout branch of calculate_safety_score added to the score.
BuildRecord ==
    /\ probe.stage = "input"
    /\ probe' = [probe EXCEPT !.stage = "built",
                              !.result = calculate_dividend_metrics(1, probe.resp),
                              !.payoutAdj = PayoutAdjustment(probe.resp.payoutRatio)]
    /\ UNCHANGED <<now, ticks, snapshotFile, historicalFile, runs, nextRun, reply, appended>>

\* calculate_safety_score(payout_ratio, consecutive_years, growth_rate,
\* dividend_yield) called on the four inputs themselves; raw (history) is the
\* score before the clamp.
CallSafetyScore ==
    /\ probe.stage = "input"
    /\ LET consecutive_years == calculate_consecutive_years(probe.resp.years)
       IN  probe' = [probe EXCEPT
                        !.stage = "scored",
                        !.safety = calculate_safety_score(probe.resp.payoutRatio, consecutive_years,
                                                          probe.resp.growth, probe.resp.dividendYield),
                        !.raw = RawScore(probe.resp.payoutRatio, consecutive_years,
                                         probe.resp.growth, probe.resp.dividendYield)]
    /\ UNCHANGED <<now, ticks, snapshotFile, historicalFile, runs, nextRun, reply, appended>>

NextScore == BuildRecord \/ CallSafetyScore

SpecScore == InitScore /\ [][NextScore]_vars

(***************************************************************************)
(* apply_filters_and_sort on its own: one query over a list of records,    *)
(* as the read endpoints call it on the stocks of the snapshot.  The list  *)
(* holds one record per ticker, in any order; growthRate is null, negative,*)
(* zero or positive; no record carries the key peRatio.                    *)
(***************************************************************************)
GrowthValues == {None, <<-500>>, <<0>>, <<300>>}

ListedStock(ticker, growthRate) ==
    [ticker |-> ticker,
     category |-> IF ticker = 1 THEN "immediate" ELSE "balanced",
     sector |-> IF ticker = 1 THEN 1 ELSE 2,
     dividendYield |-> 100 * ticker + 100,
     safetyScore |-> 40 + 10 * ticker,
     growthRate |-> growthRate]

Orders == {f \in [1..NumListed -> 1..NumListed] : \A a, b \in 1..NumListed : a # b => f[a] # f[b]}

StockLists ==
    {[k \in 1..NumListed |-> ListedStock(f[k], g[k])] :
        f \in Orders, g \in [1..NumListed -> GrowthValues]}

InitSort ==
    /\ now = 0
    /\ ticks = 0
    /\ runs = [r \in RunIds |-> NoRun]
    /\ nextRun = 1
    /\ reply = NoReply
    /\ snapshotFile = AbsentSnapshot
    /\ historicalFile = AbsentHistorical
    /\ appended = NoHistory
    /\ \E stocks \in StockLists : probe = [NoProbe EXCEPT !.stage = "cached", !.stocks = stocks]

\* apply_filters_and_sort(cached["stocks"], category, min_yield, max_yield,
\* min_safety, sector, sort_by, limit)
ApplyFiltersAndSort ==
    /\ probe.stage = "cached"
    /\ \E category \in {None, <<"immediate">>}, min_yield \in {None, <<300>>},
          max_yield \in {None, <<300>>}, min_safety \in {None, <<60>>},
          sector \in {None, <<2>>}, sort_by \in {"growthRate", "ticker", "peRatio"},
          limit \in {2, 100} :
           LET result == apply_filters_and_sort(probe.stocks, category, min_yield, max_yield,
                                                min_safety, sector, sort_by, limit)
           IN  probe' = [probe EXCEPT !.stage = "listed", !.sort_by = sort_by, !.limit = limit,
                                      !.total = result.total, !.listed = result.stocks]
    /\ UNCHANGED <<now, ticks, snapshotFile, historicalFile, runs, nextRun, reply, appended>>

NextSort == ApplyFiltersAndSort

SpecSort == InitSort /\ [][NextSort]_vars

(***************************************************************************)
(* calculate_consecutive_years on its own: one call on a dividend history  *)
(* whose payments fall in any set of the last NumYears calendar years.     *)
(***************************************************************************)
YearSets == SUBSET ((2024 - NumYears + 1)..2024)

InitYears ==
    /\ now = 0
    /\ ticks = 0
    /\ runs = [r \in RunIds |-> NoRun]
    /\ nextRun = 1
    /\ reply = NoReply
    /\ snapshotFile = AbsentSnapshot
    /\ historicalFile = AbsentHistorical
    /\ appended = NoHistory
    /\ \E years \in YearSets :
           probe = [NoProbe EXCEPT !.stage = "history", !.resp = [GoodResp EXCEPT !.years = years]]

\* consecutive_years = calculate_consecutive_years(dividends)
CallConsecutiveYears ==
    /\ probe.stage = "history"
    /\ probe' = [probe EXCEPT !.stage = "counted",
                              !.consecutive = calculate_consecutive_years(probe.resp.years)]
    /\ UNCHANGED <<now, ticks, snapshotFile, historicalFile, runs, nextRun, reply, appended>>

NextYears == CallConsecutiveYears

SpecYears == InitYears /\ [][NextYears]_vars


(***************************************************************************)
(*                              PROPERTIES                                 *)
(***************************************************************************)

\* C1. A refresh run whose aggregated result is empty commits nothing: no
\* step of a run that holds no record changes the snapshot file or the
\* historical file, and at the commit guard such a run ends as aborted.
C1_EmptyRunCommitsNothing ==
    [][\A r \in RunIds :
          (runs'[r] # runs[r] /\ runs[r].all_stocks = <<>> /\ runs'[r].all_stocks = <<>>)
          => /\ snapshotFile' = snapshotFile
             /\ historicalFile' = historicalFile
             /\ (runs[r].pc = "commit" => runs'[r].pc = "aborted")]_vars

\* An empty run has ended over a snapshot and a history committed earlier.
C1_Witness ==
    \E r \in RunIds :
        /\ runs[r].pc = "aborted"
        /\ snapshotFile = CompleteSnapshot(0, AllGood)
        /\ historicalFile = CompleteHistorical(AppendHistorical(NoHistory, AllGood, 0))

\* C2. A read endpoint never finds the snapshot file partially written: what
\* load_cached_snapshot opens is absent or a whole generation.
C2_ReadersSeeWholeSnapshot == reply.endpoint # "none" => reply.file # "partial"

\* C3. At most one refresh run of the API is between its start and its end.
ActiveApiRuns ==
    {r \in RunIds : runs[r].kind = "api"
                    /\ runs[r].pc \notin {"none", "queued", "done", "aborted", "failed"}}

C3_AtMostOneActiveRun == Cardinality(ActiveApiRuns) <= 1

\* C4. A request with force_refresh starts a refresh run whatever the state
\* of the snapshot.
C4_ForceRefreshStartsRun == (reply.endpoint = "stocks" /\ reply.force) => reply.started

\* C5. Every series of the historical store holds at most 30 points, the
\* most recently appended ones in append order; after 35 appends it is the
\* appends 6 to 35.
LastPoints(log, n) == SubSeq(log, Len(log) - Min(Len(log), n) + 1, Len(log))

C5_HistoryKeepsLast30 ==
    \A t \in Tickers :
        LET series == historicalFile.data[t]
        IN  /\ Len(series) <= 30
            /\ series = LastPoints(appended[t], 30)
            /\ Len(appended[t]) = 35 => series = SubSeq(appended[t], 6, 35)

\* The first ticker after 35 appends: 30 points, from the 6th to the 35th.
C5_Witness ==
    /\ Len(appended[1]) = 35
    /\ Len(historicalFile.data[1]) = 30
    /\ historicalFile.data[1][1].price = 6
    /\ historicalFile.data[1][30].price = 35

StatusIfAbsent(endpoint, force_refresh) ==
    IF endpoint = "stocks" THEN get_dividend_stocks(AbsentSnapshot, now, force_refresh).status
    ELSE get_top_stocks(AbsentSnapshot, now).status

C7_AbsentAndStaleDiffer ==
    (reply.file = "complete" /\ reply.age >= 24 * 60)
    => reply.status # StatusIfAbsent(reply.endpoint, reply.force)

\* C8. In a run every ticker of the universe is submitted exactly once, in
\* order, whatever the other calls return, and when the loop has ended the
\* aggregated result is the records of the calls that returned one, in
\* submission order; a call that returned None contributes nothing.
Successes(returned) == {k \in 1..Len(returned) : returned[k] # None}

C8_FailuresAreIsolated ==
    \A r \in RunIds :
        LET run == runs[r]
            ok == Successes(run.returned)
        IN  /\ \A a, b \in 1..Len(run.submitted) :
                   a # b => run.submitted[a] # run.submitted[b]
            /\ run.pc \in SyncPcs =>
                   /\ run.submitted = SP500_TICKERS
                   /\ Len(run.returned) = Len(SP500_TICKERS)
                   /\ Len(run.all_stocks) = Cardinality(ok)
                   /\ \A k \in ok :
                          /\ run.returned[k][1].ticker = SP500_TICKERS[k]
                          /\ run.all_stocks[Cardinality({m \in ok : m <= k})] = run.returned[k][1]

\* The loop has ended; the first ticker failed and every other one succeeded.
C8_Witness ==
    \E r \in RunIds :
        /\ runs[r].pc = "commit"
        /\ runs[r].returned[1] = None
        /\ Len(runs[r].all_stocks) = NumTickers - 1
        /\ runs[r].all_stocks[1].ticker = SP500_TICKERS[2]

\* C9. A run of B batches has paused B - 1 times when its loop has ended.
C9_PausesBetweenBatchesOnly ==
    \A r \in RunIds : runs[r].pc = "commit" => runs[r].pauses = TotalBatches - 1

\* C10. The payout contribution to the safety score of a record is the table
\* of the payout ratio in percent, the value stored as payoutRatio (unit 1e-2).
PayoutTable(percent) ==
    IF percent = 0 THEN 0
    ELSE IF percent < 3000 THEN 25
    ELSE IF percent < 5000 THEN 40
    ELSE IF percent < 7000 THEN 30
    ELSE IF percent < 9000 THEN 15
    ELSE -10

C10_PayoutContributionFollowsTable ==
    (probe.stage = "built" /\ probe.result # None)
    => probe.payoutAdj = PayoutTable(probe.result[1].payoutRatio)

\* C11. The safety score is in [0,100] for every combination of payout
\* ratio, consecutive years, growth rate and yield: the score of a direct
\* call and the safetyScore of every record built.
C11_SafetyScoreInRange ==
    /\ probe.stage = "scored" => (probe.safety >= 0 /\ probe.safety <= 100)
    /\ (probe.stage = "built" /\ probe.result # None)
           => (probe.result[1].safetyScore >= 0 /\ probe.result[1].safetyScore <= 100)

\* All positive adjustments apply together: raw 140, returned 100.
C11_Witness == probe.stage = "scored" /\ probe.raw = 140 /\ probe.safety = 100

\* C12. The list of a query is ordered by the sort field, ascending for
\* ticker and name and non-increasing otherwise, and a record whose value of
\* the sort field is missing or null comes below every record with a value,
\* negative values included: in the non-increasing list, behind them.
HasValue(x, sort_by) ==
    /\ sort_by \in DOMAIN x
    /\ sort_by = "growthRate" => x.growthRate # None

ValueOf(x, sort_by) == IF sort_by = "growthRate" THEN x.growthRate[1] ELSE x[sort_by]

MostRecent(years) == CHOOSE m \in years : \A y \in years : y <= m

RunEndingAtMostRecent(years) ==
    IF years = {} THEN 0
    ELSE LET m == MostRecent(years)
         IN  CHOOSE n \in 1..Cardinality(years) :
                 /\ \A y \in (m - n + 1)..m : y \in years
                 /\ (m - n) \notin years

C13_ConsecutiveYearsIsLatestRun ==
    probe.stage = "counted" =>
        /\ probe.consecutive = RunEndingAtMostRecent(probe.resp.years)
        /\ probe.resp.years = {} => probe.consecutive = 0
        /\ Cardinality(probe.resp.years) = 1 => probe.consecutive = 1
        /\ probe.resp.years = {2024, 2023, 2022, 2020} => probe.consecutive = 3

\* The walk stopped at the gap before 2020.
C13_Witness ==
    /\ probe.stage = "counted"
    /\ probe.resp.years = {2024, 2023, 2022, 2020}
    /\ probe.consecutive = 3

\* C14. Within one refresh run the universe is cut into consecutive batches
\* of at most BatchSize tickers (20 in the source); the calls of a batch are
\* submitted only when every call submitted before has returned, the
\* gather returns only when every call of its batch has returned, with a
\* record or with None, and a call that returns None leaves the other calls
\* of its batch as they are.
BatchInFlight(run) ==
    run.pc = "gather" =>
        /\ run.i % BatchSize = 0
        /\ Len(run.futures) >= 1 /\ Len(run.futures) <= BatchSize
        /\ [k \in 1..Len(run.futures) |-> run.futures[k].ticker]
               = SubSeq(SP500_TICKERS, run.i + 1, run.i + Len(run.futures))
        /\ run.submitted = SubSeq(SP500_TICKERS, 1, run.i + Len(run.futures))
        /\ Len(run.returned) = run.i
        /\ (Len(run.futures) < BatchSize => Len(run.submitted) = Len(SP500_TICKERS))

BatchStep(run, after) ==
    /\ Len(after.submitted) > Len(run.submitted) =>
           /\ Len(run.returned) = Len(run.submitted)
           /\ run.futures = <<>>
    /\ Len(after.returned) > Len(run.returned) =>
           /\ \A k \in 1..Len(run.futures) : run.futures[k].done
           /\ after.returned =
                  run.returned \o [k \in 1..Len(run.futures) |-> run.futures[k].result]
    /\ (run.pc = "gather" /\ after.pc = "gather" /\ after.i = run.i) =>
           \A k \in 1..Len(run.futures) :
               run.futures[k].done => after.futures[k] = run.futures[k]

C14_BatchesRunOneAfterTheOther ==
    /\ [](\A r \in RunIds : BatchInFlight(runs[r]))
    /\ [][\A r \in RunIds : BatchStep(runs[r], runs'[r])]_vars

\* The second batch is in flight after a first batch in which the first call
\* failed and the second returned a record.
C14_Witness ==
    \E r \in RunIds :
        /\ runs[r].pc = "gather"
        /\ runs[r].i = BatchSize
        /\ runs[r].returned[1] = None
        /\ runs[r].returned[2] # None

\* C15. A commit appends exactly one point, dated today, to the series of
\* every ticker of the committed result set (a ticker without a series gets
\* one) and leaves every other series unchanged; a second commit of the
\* same day adds its own point with the same date.
CoveredBy(stocks) == {stocks[k].ticker : k \in 1..Len(stocks)}

StockOf(stocks, t) == stocks[CHOOSE k \in 1..Len(stocks) : stocks[k].ticker = t]

C15_CommitAppendsOnePointPerCoveredTicker ==
    [][historicalFile' # historicalFile =>
          \A t \in Tickers :
              LET old == historicalFile.data[t]
                  new == historicalFile'.data[t]
                  stocks == snapshotFile'.stocks
              IN  IF t \in CoveredBy(stocks)
                  THEN /\ new # <<>>
                       /\ SubSeq(new, 1, Len(new) - 1) = LastPoints(old, 30 - 1)
                       /\ new[Len(new)].date = Today(now)
                       /\ new[Len(new)].price = StockOf(stocks, t).price
                       /\ new[Len(new)].yield = StockOf(stocks, t).dividendYield
                       /\ Len(appended'[t]) = Len(appended[t]) + 1
                  ELSE /\ new = old
                       /\ appended'[t] = appended[t]]_vars

\* Two commits of the same day, the second one of the first ticker only:
\* its series holds two points of the same date, the last series one.
C15_Witness ==
    /\ Len(historicalFile.data[1]) = 2
    /\ historicalFile.data[1][1].date = historicalFile.data[1][2].date
    /\ historicalFile.data[1][1].price # historicalFile.data[1][2].price
    /\ Len(historicalFile.data[NumTickers]) = 1

====
